---- MODULE Spec2Model ----
(***************************************************************************)
(* Model of calculator_app.py: the server-bundle cost optimizer            *)
(* (calculate_optimal_server_cost_dp), the license cost lookup             *)
(* (get_compressa_license_cost) and the module-level derivation of the     *)
(* GPU requirement from the user load.                                     *)
(***************************************************************************)
EXTENDS Integers, Sequences, FiniteSets, TLC

VARIABLES pc,
          \* calculate_optimal_server_cost_dp
          num_gpus_needed, server_prices_for_model,
          dp_cost, dp_config_breakdown, i,
          final_cost, final_config_description, prev_call,
          \* get_compressa_license_cost
          num_gpus_exact, license_tier_prices, license_cost,
          \* GPU requirement derivation
          gpu_output_tps_per_gpu_single, num_users,
          rps_per_gpu_for_user_load, total_rps_needed_for_user_load,
          num_gpus_needed_exact

dpVars == <<num_gpus_needed, server_prices_for_model, dp_cost,
            dp_config_breakdown, i, final_cost, final_config_description,
            prev_call>>
licVars == <<num_gpus_exact, license_tier_prices, license_cost>>
demVars == <<gpu_output_tps_per_gpu_single, num_users,
             rps_per_gpu_for_user_load, total_rps_needed_for_user_load,
             num_gpus_needed_exact>>
vars == <<pc, dpVars, licVars, demVars>>

----------------------------------------------------------------------------
(* Bounds of the model *)

MaxGpus == 12      \* largest GPU requirement passed to the optimizer
NegGpus == 2       \* requirements down to -NegGpus are passed as well
MaxSize == 3       \* generated catalogs use SKU sizes 1..MaxSize
MaxPrice == 2      \* generated catalogs use prices 0..MaxPrice
MaxUsers == 60     \* user counts 0..MaxUsers
MaxTps == 9        \* throughput values up to MaxTps besides the configured ones
NegTps == 1        \* and down to -NegTps

----------------------------------------------------------------------------
(* Configuration tables *)

T_LITE == "T-lite (8B, A100 40GB)"
T_PRO == "T-pro (32B, A100 80GB)"

OUTPUT_TOKENS_PER_REQUEST == 500
MAX_LATENCY_S == 10

MODEL_PERFORMANCE == (T_LITE :> 5727) @@ (T_PRO :> 1931)

SERVER_COSTS_CONFIGS ==
    (T_LITE :> ((1 :> 100000) @@ (2 :> 180000) @@ (4 :> 280000) @@ (8 :> 500000)))
    @@ (T_PRO :> ((1 :> 300000) @@ (2 :> 600000) @@ (4 :> 1200000) @@ (8 :> 2500000)))

LICENSE_PRICES_PER_GPU_TIERS ==
    (1 :> 150000) @@ (2 :> 145000) @@ (4 :> 140000) @@ (8 :> 130000)

----------------------------------------------------------------------------
(* Python floats (IEEE 754 binary64) as far as lines 116-120 use them:     *)
(* a float is sign * m * 2^e with m a sequence of MantissaBits bits, most  *)
(* significant first and leading bit 1; a quotient is the exact quotient   *)
(* rounded to nearest, ties to even.                                       *)

MantissaBits == 53

FZero == [sign |-> 0, m |-> <<>>, e |-> 0]

RECURSIVE NatBits(_)
\* the binary digits of a natural number, <<>> for 0
NatBits(n) == IF n = 0 THEN <<>> ELSE Append(NatBits(n \div 2), n % 2)

RECURSIVE BitsToNat(_)
BitsToNat(b) ==
    IF b = <<>> THEN 0 ELSE 2 * BitsToNat(SubSeq(b, 1, Len(b) - 1)) + b[Len(b)]

\* without leading zeros
Strip(b) ==
    IF \A k \in DOMAIN b : b[k] = 0 THEN <<>>
    ELSE SubSeq(b, CHOOSE k \in DOMAIN b : b[k] = 1 /\ \A l \in 1..(k - 1) : b[l] = 0,
                Len(b))

\* a >= b for stripped digit sequences
BitsGE(a, b) ==
    IF Len(a) # Len(b) THEN Len(a) > Len(b)
    ELSE \/ a = b
         \/ \E k \in DOMAIN a : a[k] > b[k] /\ \A l \in 1..(k - 1) : a[l] = b[l]

\* a - b for stripped digit sequences with a >= b: digit k borrows when a
\* lower position has a smaller digit in a and all between are equal
BitsSub(a, b) ==
    LET n == Len(a)
        pad == n - Len(b)
        bp == [k \in 1..n |-> IF k <= pad THEN 0 ELSE b[k - pad]]
        borrow == [k \in 1..n |->
                     IF \E j \in (k + 1)..n :
                           a[j] < bp[j] /\ \A l \in (k + 1)..(j - 1) : a[l] = bp[l]
                     THEN 1 ELSE 0]
    IN  Strip([k \in 1..n |-> (a[k] - bp[k] - borrow[k] + 2) % 2])

\* b + 1, one digit longer when every digit of b is 1
BitsInc(b) ==
    IF \A k \in DOMAIN b : b[k] = 1 THEN <<1>> \o [k \in DOMAIN b |-> 0]
    ELSE LET z == CHOOSE k \in DOMAIN b : b[k] = 0 /\ \A l \in (k + 1)..Len(b) : b[l] = 1
         IN  [k \in DOMAIN b |-> IF k < z THEN b[k] ELSE IF k = z THEN 1 ELSE 0]

\* one step of the binary long division of N by D: bring down digit j of N
\* (0 past its end), emit one quotient digit; quotient digits are kept from
\* the first digit 1 on, and nothing changes once MantissaBits + 1 are known
DivStep(N, D, st) ==
    IF Len(st.q) = MantissaBits + 1 THEN st
    ELSE LET R2 == Strip(Append(st.R, IF st.j <= Len(N) THEN N[st.j] ELSE 0))
             ge == BitsGE(R2, D)
         IN  [j |-> st.j + 1,
              R |-> IF ge THEN BitsSub(R2, D) ELSE R2,
              q |-> IF st.q = <<>> /\ ~ge THEN st.q ELSE Append(st.q, IF ge THEN 1 ELSE 0)]

\* the value of the single element of a set; used as Only({F(x) : x \in {e}})
\* to evaluate e once before F is applied to it
Only(S) == CHOOSE x \in S : TRUE

\* 2, 4, ..., 128 steps of the long division
DivSteps2(N, D, st) == Only({DivStep(N, D, x) : x \in {DivStep(N, D, st)}})
DivSteps4(N, D, st) == Only({DivSteps2(N, D, x) : x \in {DivSteps2(N, D, st)}})
DivSteps8(N, D, st) == Only({DivSteps4(N, D, x) : x \in {DivSteps4(N, D, st)}})
DivSteps16(N, D, st) == Only({DivSteps8(N, D, x) : x \in {DivSteps8(N, D, st)}})
DivSteps32(N, D, st) == Only({DivSteps16(N, D, x) : x \in {DivSteps16(N, D, st)}})
DivSteps64(N, D, st) == Only({DivSteps32(N, D, x) : x \in {DivSteps32(N, D, st)}})
DivSteps128(N, D, st) == Only({DivSteps64(N, D, x) : x \in {DivSteps64(N, D, st)}})

\* the long division up to MantissaBits + 1 quotient digits: the first digit
\* 1 comes within Len(D) + 1 steps and the operands have at most
\* MantissaBits digits, so 128 steps reach the end
LongDiv(N, D) ==
    LET Result(st) ==
            [q |-> st.q, steps |-> st.j - 1,
             sticky |-> st.R # <<>> \/ \E k \in st.j..Len(N) : N[k] = 1]
    IN  Only({Result(st) : st \in {DivSteps128(N, D, [j |-> 1, R |-> <<>>, q |-> <<>>])}})

\* N / D for positive integers given by their digits, rounded to nearest
\* with ties to even: [m, e] with value m * 2^e
RoundedQuotient(N, D) ==
    LET Round(r) ==
            LET m == SubSeq(r.q, 1, MantissaBits)
                guard == r.q[MantissaBits + 1]
                up == guard = 1 /\ (r.sticky \/ m[MantissaBits] = 1)
                e == Len(N) - r.steps + 1
                m1 == BitsInc(m)
            IN  IF ~up THEN [m |-> m, e |-> e]
                ELSE IF Len(m1) = MantissaBits THEN [m |-> m1, e |-> e]
                ELSE [m |-> SubSeq(m1, 1, MantissaBits), e |-> e + 1]
    IN  Only({Round(r) : r \in {LongDiv(N, D)}})

Abs(x) == IF x < 0 THEN 0 - x ELSE x
Sign(x) == IF x < 0 THEN 0 - 1 ELSE IF x = 0 THEN 0 ELSE 1

\* int / int (b # 0): the correctly rounded quotient
PyTrueDiv(a, b) ==
    IF a = 0 THEN FZero
    ELSE Only({[sign |-> Sign(a) * Sign(b), m |-> r.m, e |-> r.e] :
               r \in {Only({RoundedQuotient(N, D) :
                              N \in {NatBits(Abs(a))}, D \in {NatBits(Abs(b))}})}})

\* float / float (y # 0)
FloatDiv(x, y) ==
    IF x.sign = 0 THEN FZero
    ELSE Only({[sign |-> x.sign * y.sign, m |-> r.m, e |-> r.e + x.e - y.e] :
               r \in {RoundedQuotient(x.m, y.m)}})

FloatPositive(x) == x.sign = 1

\* math.ceil of a float
Ceil(x) ==
    IF x.sign = 0 THEN 0
    ELSE LET k == MantissaBits + x.e  \* number of digits before the point
             whole == IF k <= 0 THEN 0
                      ELSE IF k >= MantissaBits
                           THEN BitsToNat(x.m) * (2 ^ (k - MantissaBits))
                           ELSE BitsToNat(SubSeq(x.m, 1, k))
             frac == \E j \in (IF k < 0 THEN 1 ELSE k + 1)..MantissaBits : x.m[j] = 1
         IN  IF x.sign = 1 THEN whole + (IF frac THEN 1 ELSE 0)
             ELSE 0 - whole

----------------------------------------------------------------------------
(* calculate_optimal_server_cost_dp *)

\* float('inf'); every real cost is a non-negative integer
Inf == -1

\* a < b on Python numbers where either side may be float('inf')
FloatLess(a, b) ==
    IF a = Inf THEN FALSE
    ELSE IF b = Inf THEN TRUE
    ELSE a < b

\* a + b on Python numbers where a may be float('inf')
FloatAdd(a, b) == IF a = Inf THEN Inf ELSE a + b

SetMin(S) == CHOOSE x \in S : \A y \in S : x <= y
SetMax(S) == CHOOSE x \in S : \A y \in S : x >= y

RECURSIVE SortedSeq(_)
\* sorted(keys): ascending
SortedSeq(S) ==
    IF S = {} THEN <<>>
    ELSE <<SetMin(S)>> \o SortedSeq(S \ {SetMin(S)})

RECURSIVE SortedDesc(_)
\* sorted(..., reverse=True)
SortedDesc(S) ==
    IF S = {} THEN <<>>
    ELSE <<SetMax(S)>> \o SortedDesc(S \ {SetMax(S)})

ServerOptions(prices) == SortedSeq(DOMAIN prices)

\* line 51: the guard of the early return
NoGpusNeeded(n) == n <= 0

\* line 60
FitsMut(idx, gpu_config_size) == idx > gpu_config_size
Fits(idx, gpu_config_size) == idx >= gpu_config_size

\* line 62
PrefixReachable(cost, idx, gpu_config_size) == cost[idx - gpu_config_size] # Inf

\* line 63
CurrentTotalCostMut(cost, prices, idx, gpu_config_size) ==
    FloatAdd(cost[idx - gpu_config_size], 0)
CurrentTotalCost(cost, prices, idx, gpu_config_size) ==
    FloatAdd(cost[idx - gpu_config_size], prices[gpu_config_size])

\* line 64
ImprovesMut(current_total_cost, old_cost) ==
    FloatLess(current_total_cost, old_cost) \/ current_total_cost = old_cost
Improves(current_total_cost, old_cost) == FloatLess(current_total_cost, old_cost)

\* line 66
ExtendBreakdownMut(breakdown, idx, gpu_config_size) ==
    Append(breakdown[idx], gpu_config_size)
ExtendBreakdown(breakdown, idx, gpu_config_size) ==
    Append(breakdown[idx - gpu_config_size], gpu_config_size)

InnerBodyMut(tabs, prices, idx, gpu_config_size) ==
    IF Fits(idx, gpu_config_size)
       /\ PrefixReachable(tabs.cost, idx, gpu_config_size)
       /\ Improves(CurrentTotalCost(tabs.cost, prices, idx, gpu_config_size),
                   tabs.cost[idx])
    THEN [cost |-> [tabs.cost EXCEPT ![idx] =
                       CurrentTotalCost(tabs.cost, prices, idx, gpu_config_size)],
          breakdown |-> tabs.breakdown]
    ELSE tabs
\* lines 60-66: the body of the inner loop for one gpu_config_size,
\* applied to the pair of tables
InnerBody(tabs, prices, idx, gpu_config_size) ==
    IF Fits(idx, gpu_config_size)
       /\ PrefixReachable(tabs.cost, idx, gpu_config_size)
       /\ Improves(CurrentTotalCost(tabs.cost, prices, idx, gpu_config_size),
                   tabs.cost[idx])
    THEN [cost |-> [tabs.cost EXCEPT ![idx] =
                       CurrentTotalCost(tabs.cost, prices, idx, gpu_config_size)],
          breakdown |-> [tabs.breakdown EXCEPT ![idx] =
                       ExtendBreakdown(tabs.breakdown, idx, gpu_config_size)]]
    ELSE tabs

RECURSIVE InnerLoop(_, _, _, _, _)
\* lines 59-66: for gpu_config_size in server_options, from position k on
InnerLoop(tabs, prices, idx, options, k) ==
    IF k > Len(options) THEN tabs
    ELSE InnerLoop(InnerBody(tabs, prices, idx, options[k]),
                   prices, idx, options, k + 1)

\* line 72: Counter(list)
Counter(list) ==
    [s \in {list[j] : j \in DOMAIN list} |->
        Cardinality({j \in DOMAIN list : list[j] = s})]

\* lines 73-76: one <<count, gpu_size>> entry per line of the description,
\* largest size first
ConfigDetails(config_counts) ==
    LET order == SortedDesc(DOMAIN config_counts)
        kept == SelectSeq(order, LAMBDA s : config_counts[s] > 0)
    IN  [j \in DOMAIN kept |-> <<config_counts[kept[j]], kept[j]>>]

\* lines 78-82
Describe(details, n) ==
    IF details = <<>> /\ n > 0 THEN [kind |-> "Error", items |-> <<>>]
    ELSE IF n = 0 THEN [kind |-> "NoGpu", items |-> <<>>]
    ELSE [kind |-> "Servers", items |-> details]

NoCall == [valid |-> FALSE, n |-> 0, cost |-> 0,
           description |-> [kind |-> "NoGpu", items |-> <<>>]]

\* catalogs handed to the optimizer: the two configured ones and every
\* catalog over sizes 1..MaxSize with prices 0..MaxPrice
GeneratedCatalogs ==
    UNION {[sizes -> 0..MaxPrice] : sizes \in SUBSET (1..MaxSize)}
Catalogs == GeneratedCatalogs \cup {SERVER_COSTS_CONFIGS[m] : m \in DOMAIN SERVER_COSTS_CONFIGS}

GpuArgs == (0 - NegGpus)..MaxGpus

IdleLicense ==
    /\ num_gpus_exact = 0
    /\ license_tier_prices = LICENSE_PRICES_PER_GPU_TIERS
    /\ license_cost = 0

IdleDemand ==
    /\ gpu_output_tps_per_gpu_single = 0
    /\ num_users = 0
    /\ rps_per_gpu_for_user_load = FZero
    /\ total_rps_needed_for_user_load = FZero
    /\ num_gpus_needed_exact = 0

InitDP ==
    /\ pc = "call"
    /\ num_gpus_needed \in GpuArgs
    /\ server_prices_for_model \in Catalogs
    /\ dp_cost = <<>>
    /\ dp_config_breakdown = <<>>
    /\ i = 0
    /\ final_cost = 0
    /\ final_config_description = [kind |-> "NoGpu", items |-> <<>>]
    /\ prev_call = NoCall
    /\ IdleLicense
    /\ IdleDemand

\* lines 51-52
ReturnNoGpu ==
    /\ pc = "call"
    /\ NoGpusNeeded(num_gpus_needed)
    /\ final_cost' = 0
    /\ final_config_description' = [kind |-> "NoGpu", items |-> <<>>]
    /\ pc' = "returned"
    /\ UNCHANGED <<num_gpus_needed, server_prices_for_model, dp_cost,
                   dp_config_breakdown, i, prev_call, licVars, demVars>>

\* lines 53-56
InitTables ==
    /\ pc = "call"
    /\ ~NoGpusNeeded(num_gpus_needed)
    /\ dp_cost' = [j \in 0..num_gpus_needed |-> IF j = 0 THEN 0 ELSE Inf]
    /\ dp_config_breakdown' = [j \in 0..num_gpus_needed |-> <<>>]
    /\ i' = 1
    /\ pc' = "loop"
    /\ UNCHANGED <<num_gpus_needed, server_prices_for_model, final_cost,
                   final_config_description, prev_call, licVars, demVars>>

\* lines 58-66: one iteration of the outer loop
OuterIteration ==
    /\ pc = "loop"
    /\ i <= num_gpus_needed
    /\ LET tabs == InnerLoop([cost |-> dp_cost, breakdown |-> dp_config_breakdown],
                             server_prices_for_model, i,
                             ServerOptions(server_prices_for_model), 1)
       IN  /\ dp_cost' = tabs.cost
           /\ dp_config_breakdown' = tabs.breakdown
    /\ i' = i + 1
    /\ UNCHANGED <<pc, num_gpus_needed, server_prices_for_model, final_cost,
                   final_config_description, prev_call, licVars, demVars>>

\* lines 68-70
ReturnInfeasible ==
    /\ pc = "loop"
    /\ i > num_gpus_needed
    /\ dp_cost[num_gpus_needed] = Inf
    /\ final_cost' = Inf
    /\ final_config_description' = [kind |-> "Infeasible", items |-> <<>>]
    /\ pc' = "returned"
    /\ UNCHANGED <<num_gpus_needed, server_prices_for_model, dp_cost,
                   dp_config_breakdown, i, prev_call, licVars, demVars>>

\* lines 68-83
ReturnCost ==
    /\ pc = "loop"
    /\ i > num_gpus_needed
    /\ dp_cost[num_gpus_needed] # Inf
    /\ final_cost' = dp_cost[num_gpus_needed]
    /\ final_config_description' =
          Describe(ConfigDetails(Counter(dp_config_breakdown[num_gpus_needed])),
                   num_gpus_needed)
    /\ pc' = "returned"
    /\ UNCHANGED <<num_gpus_needed, server_prices_for_model, dp_cost,
                   dp_config_breakdown, i, prev_call, licVars, demVars>>

\* the script is run again after a change of the user-count input: line 130
\* calls the optimizer with the same catalog and another GPU requirement
Rerun ==
    /\ pc = "returned"
    /\ prev_call' = [valid |-> TRUE, n |-> num_gpus_needed, cost |-> final_cost,
                     description |-> final_config_description]
    /\ num_gpus_needed' \in GpuArgs
    /\ dp_cost' = <<>>
    /\ dp_config_breakdown' = <<>>
    /\ i' = 0
    /\ pc' = "call"
    /\ UNCHANGED <<server_prices_for_model, final_cost,
                   final_config_description, licVars, demVars>>

NextDP ==
    \/ ReturnNoGpu
    \/ InitTables
    \/ OuterIteration
    \/ ReturnInfeasible
    \/ ReturnCost
    \/ Rerun

SpecDP == InitDP /\ [][NextDP]_vars

----------------------------------------------------------------------------
(* get_compressa_license_cost *)

\* dict.get(key, default)
DictGet(d, key, default) == IF key \in DOMAIN d THEN d[key] ELSE default

PricePerLicenseMut(n, prices) ==
    IF n = 1 THEN DictGet(prices, 1, prices[8])
    ELSE IF n = 2 THEN DictGet(prices, 2, prices[8])
    ELSE IF 3 <= n /\ n < 4 THEN DictGet(prices, 4, prices[8])
    ELSE IF n >= 5 THEN DictGet(prices, 8, prices[8])
    ELSE 0
\* lines 88-92
PricePerLicense(n, prices) ==
    IF n = 1 THEN DictGet(prices, 1, prices[8])
    ELSE IF n = 2 THEN DictGet(prices, 2, prices[8])
    ELSE IF 3 <= n /\ n <= 4 THEN DictGet(prices, 4, prices[8])
    ELSE IF n >= 5 THEN DictGet(prices, 8, prices[8])
    ELSE 0

\* tier tables handed to the lookup: the configured one and its restrictions
\* that keep the key 8, which every branch reads for the default
TierTables ==
    {[k \in keys \cup {8} |-> LICENSE_PRICES_PER_GPU_TIERS[k]] : keys \in SUBSET {1, 2, 4}}

IdleDP ==
    /\ num_gpus_needed = 0
    /\ server_prices_for_model = SERVER_COSTS_CONFIGS[T_LITE]
    /\ dp_cost = <<>>
    /\ dp_config_breakdown = <<>>
    /\ i = 0
    /\ final_cost = 0
    /\ final_config_description = [kind |-> "NoGpu", items |-> <<>>]
    /\ prev_call = NoCall

InitLicense ==
    /\ pc = "call_license"
    /\ num_gpus_exact \in GpuArgs
    /\ license_tier_prices \in TierTables
    /\ license_cost = 0
    /\ IdleDP
    /\ IdleDemand

\* lines 86-87
LicenseNoGpu ==
    /\ pc = "call_license"
    /\ num_gpus_exact <= 0
    /\ license_cost' = 0
    /\ pc' = "license_returned"
    /\ UNCHANGED <<num_gpus_exact, license_tier_prices, dpVars, demVars>>

\* lines 88-93
LicensePerGpu ==
    /\ pc = "call_license"
    /\ ~(num_gpus_exact <= 0)
    /\ license_cost' = PricePerLicense(num_gpus_exact, license_tier_prices) * num_gpus_exact
    /\ pc' = "license_returned"
    /\ UNCHANGED <<num_gpus_exact, license_tier_prices, dpVars, demVars>>

NextLicense == LicenseNoGpu \/ LicensePerGpu

SpecLicense == InitLicense /\ [][NextLicense]_vars

----------------------------------------------------------------------------
(* GPU requirement derivation, lines 116-127 *)

\* throughput values: the configured ones and a range around zero
Throughputs ==
    {MODEL_PERFORMANCE[m] : m \in DOMAIN MODEL_PERFORMANCE} \cup ((0 - NegTps)..MaxTps)

InitDemand ==
    /\ pc = "derive"
    /\ gpu_output_tps_per_gpu_single \in Throughputs
    /\ num_users \in 0..MaxUsers
    /\ rps_per_gpu_for_user_load = FZero
    /\ total_rps_needed_for_user_load = FZero
    /\ num_gpus_needed_exact = 0
    /\ IdleDP
    /\ IdleLicense

\* lines 116-117
ComputeRates ==
    /\ pc = "derive"
    /\ rps_per_gpu_for_user_load' =
          PyTrueDiv(gpu_output_tps_per_gpu_single, OUTPUT_TOKENS_PER_REQUEST)
    /\ total_rps_needed_for_user_load' = PyTrueDiv(num_users, MAX_LATENCY_S)
    /\ pc' = "divide"
    /\ UNCHANGED <<gpu_output_tps_per_gpu_single, num_users,
                   num_gpus_needed_exact, dpVars, licVars>>

\* lines 119-120
CeilOfQuotient ==
    /\ pc = "divide"
    /\ FloatPositive(rps_per_gpu_for_user_load)
    /\ num_gpus_needed_exact' =
          Ceil(FloatDiv(total_rps_needed_for_user_load, rps_per_gpu_for_user_load))
    /\ pc' = "clamp"
    /\ UNCHANGED <<gpu_output_tps_per_gpu_single, num_users,
                   rps_per_gpu_for_user_load, total_rps_needed_for_user_load,
                   dpVars, licVars>>

\* lines 121-122
NoThroughput ==
    /\ pc = "divide"
    /\ ~FloatPositive(rps_per_gpu_for_user_load)
    /\ num_gpus_needed_exact' = 0
    /\ pc' = "clamp"
    /\ UNCHANGED <<gpu_output_tps_per_gpu_single, num_users,
                   rps_per_gpu_for_user_load, total_rps_needed_for_user_load,
                   dpVars, licVars>>

\* lines 124-127
ClampRequirement ==
    /\ pc = "clamp"
    /\ num_gpus_needed_exact' =
          IF num_gpus_needed_exact = 0 /\ FloatPositive(total_rps_needed_for_user_load)
          THEN 1
          ELSE IF total_rps_needed_for_user_load.sign = 0 THEN 0
          ELSE num_gpus_needed_exact
    /\ pc' = "derived"
    /\ UNCHANGED <<gpu_output_tps_per_gpu_single, num_users,
                   rps_per_gpu_for_user_load, total_rps_needed_for_user_load,
                   dpVars, licVars>>

NextDemand == ComputeRates \/ CeilOfQuotient \/ NoThroughput \/ ClampRequirement

SpecDemand == InitDemand /\ [][NextDemand]_vars

----------------------------------------------------------------------------
(* Properties of calculate_optimal_server_cost_dp *)

RECURSIVE SumSeq(_)
SumSeq(list) == IF list = <<>> THEN 0 ELSE Head(list) + SumSeq(Tail(list))

RECURSIVE PriceOfList(_, _)
PriceOfList(prices, list) ==
    IF list = <<>> THEN 0
    ELSE prices[Head(list)] + PriceOfList(prices, Tail(list))

\* items are <<count, gpu_size>>
RECURSIVE GpusOfItems(_)
GpusOfItems(items) ==
    IF items = <<>> THEN 0
    ELSE Head(items)[1] * Head(items)[2] + GpusOfItems(Tail(items))

RECURSIVE PriceOfItems(_, _)
PriceOfItems(prices, items) ==
    IF items = <<>> THEN 0
    ELSE Head(items)[1] * prices[Head(items)[2]] + PriceOfItems(prices, Tail(items))

RECURSIVE ExactCoverCosts(_, _, _)
\* the total prices of all count vectors over the sizes S whose sizes sum to n
ExactCoverCosts(prices, S, n) ==
    IF S = {} THEN (IF n = 0 THEN {0} ELSE {})
    ELSE LET s == CHOOSE x \in S : TRUE
         IN  UNION {{c * prices[s] + r : r \in ExactCoverCosts(prices, S \ {s}, n - c * s)} :
                    c \in 0..(n \div s)}

Returned == pc = "returned"

\* C1: for requiredGpus >= 0 and a catalog with a size-1 SKU the optimizer
\* returns a finite cost and a breakdown whose size x count sum is
\* requiredGpus; for requiredGpus = 0 the cost is 0 and the breakdown empty
C1_ExactCover ==
    (Returned /\ num_gpus_needed >= 0 /\ 1 \in DOMAIN server_prices_for_model) =>
        /\ final_cost # Inf
        /\ GpusOfItems(final_config_description.items) = num_gpus_needed
        /\ final_config_description.kind \in {"NoGpu", "Servers"}
        /\ num_gpus_needed = 0 =>
              (final_cost = 0 /\ final_config_description.items = <<>>)

C1_Witness ==
    /\ Returned
    /\ num_gpus_needed = 5
    /\ 1 \in DOMAIN server_prices_for_model
    /\ Len(final_config_description.items) = 2

\* C2: the returned cost is the minimum total price over all count vectors
\* whose sizes sum to requiredGpus (0..MaxGpus); with the T-lite catalog 5
\* GPUs cost 380000 (one 4, one 1) and 8 GPUs cost 500000 (one 8)
C2_Optimal ==
    (Returned /\ num_gpus_needed >= 0) =>
        LET costs == ExactCoverCosts(server_prices_for_model,
                                     DOMAIN server_prices_for_model, num_gpus_needed)
        IN  /\ costs # {} => final_cost = SetMin(costs)
            /\ (server_prices_for_model = SERVER_COSTS_CONFIGS[T_LITE]
                /\ num_gpus_needed = 5) =>
                  /\ final_cost = 380000
                  /\ final_config_description.items = << <<1, 4>>, <<1, 1>> >>
            /\ (server_prices_for_model = SERVER_COSTS_CONFIGS[T_LITE]
                /\ num_gpus_needed = 8) =>
                  /\ final_cost = 500000
                  /\ final_config_description.items = << <<1, 8>> >>

\* a case where the greedy choice of the largest fitting size is not optimal
C2_Witness ==
    /\ Returned
    /\ num_gpus_needed = 4
    /\ DOMAIN server_prices_for_model = {1, 2, 3}
    /\ final_config_description.items = << <<2, 2>> >>
    /\ final_cost < server_prices_for_model[3] + server_prices_for_model[1]

\* C3: for a fixed configured catalog the returned cost is non-decreasing in
\* requiredGpus: a <= b implies cost(a) <= cost(b)
C3_Monotone ==
    (/\ Returned
     /\ prev_call.valid
     /\ server_prices_for_model \in {SERVER_COSTS_CONFIGS[m] : m \in DOMAIN SERVER_COSTS_CONFIGS}
     /\ 0 <= prev_call.n
     /\ prev_call.n <= num_gpus_needed) =>
        ~FloatLess(final_cost, prev_call.cost)

\* C4: a negative requiredGpus is rejected with an invalid-argument
\* condition and never answered with the zero-GPU result
C4_NegativeRejected ==
    (Returned /\ num_gpus_needed < 0) =>
        /\ final_config_description.kind = "InvalidArgument"
        /\ ~(final_cost = 0 /\ final_config_description.kind = "NoGpu")

\* C5: for requiredGpus > 0 the infeasible outcome is reported exactly when
\* no multiset of catalog sizes sums to requiredGpus, and it differs from
\* every real cost, which is a non-negative number
C5_InfeasibleExactly ==
    (Returned /\ num_gpus_needed > 0) =>
        LET feasible == ExactCoverCosts(server_prices_for_model,
                                        DOMAIN server_prices_for_model,
                                        num_gpus_needed) # {}
        IN  /\ (final_cost = Inf) <=> ~feasible
            /\ (final_config_description.kind = "Infeasible") <=> ~feasible
            /\ feasible => (final_cost >= 0 /\ final_config_description.kind = "Servers")

C5_Witness ==
    /\ Returned
    /\ num_gpus_needed = 5
    /\ DOMAIN server_prices_for_model = {2}
    /\ final_config_description.kind = "Infeasible"

\* the sizes whose candidate cost equals the recorded cost of index j
WinningSizes(j) ==
    {s \in DOMAIN server_prices_for_model :
        /\ s <= j
        /\ dp_cost[j - s] # Inf
        /\ dp_cost[j - s] + server_prices_for_model[s] = dp_cost[j]}

\* C9: a later size replaces the recorded choice only when strictly cheaper,
\* so the size recorded for a finished index is the smallest of the sizes
\* with the minimal candidate cost; a repeated call with the same arguments
\* returns the same cost and breakdown
C9_FirstMinimalSizeKept ==
    /\ pc = "loop" =>
          \A j \in 1..(i - 1) :
              dp_cost[j] # Inf =>
                  /\ dp_config_breakdown[j] # <<>>
                  /\ dp_config_breakdown[j][Len(dp_config_breakdown[j])]
                        = SetMin(WinningSizes(j))
    /\ (Returned /\ prev_call.valid /\ prev_call.n = num_gpus_needed) =>
          /\ prev_call.cost = final_cost
          /\ prev_call.description = final_config_description

\* an index with two equally cheap candidates has been processed
C9_Witness ==
    /\ pc = "loop"
    /\ \E j \in 1..(i - 1) :
          /\ dp_cost[j] # Inf
          /\ Cardinality(WinningSizes(j)) >= 2
          /\ dp_config_breakdown[j][Len(dp_config_breakdown[j])] = SetMin(WinningSizes(j))

\* C10: in the tables, an index with a finite cost records a list whose
\* sizes sum to the index and whose prices sum to the cost, an index with
\* infinite cost records the empty list; the returned cost is the total
\* price of the returned breakdown
C10_TablesConsistent ==
    /\ pc = "loop" =>
          \A j \in 0..(i - 1) :
              /\ dp_cost[j] # Inf =>
                    /\ SumSeq(dp_config_breakdown[j]) = j
                    /\ PriceOfList(server_prices_for_model, dp_config_breakdown[j])
                          = dp_cost[j]
              /\ dp_cost[j] = Inf => dp_config_breakdown[j] = <<>>
    /\ (Returned /\ final_cost # Inf) =>
          PriceOfItems(server_prices_for_model, final_config_description.items)
              = final_cost

C10_Witness ==
    /\ pc = "loop"
    /\ i > 4
    /\ dp_cost[3] = Inf
    /\ dp_cost[4] # Inf
    /\ Len(dp_config_breakdown[4]) = 2

----------------------------------------------------------------------------
(* Properties of the GPU requirement derivation and of the license lookup *)

\* ceil(a / b) for a >= 0, b > 0, exactly
ExactCeil(a, b) == (a + b - 1) \div b

Derived == pc = "derived"

\* C6: with positive throughput the requirement is
\* ceil(users * tokensPerRequest / (latency * throughput)), 0 for no users
\* and at least 1 for any users
C6_ExactCeiling ==
    (Derived /\ gpu_output_tps_per_gpu_single > 0) =>
        /\ num_gpus_needed_exact =
              ExactCeil(num_users * OUTPUT_TOKENS_PER_REQUEST,
                        MAX_LATENCY_S * gpu_output_tps_per_gpu_single)
        /\ num_users = 0 => num_gpus_needed_exact = 0
        /\ num_users > 0 => num_gpus_needed_exact >= 1

\* C7: with zero or negative throughput the derivation never completes with
\* a GPU requirement
C7_FailFast ==
    gpu_output_tps_per_gpu_single <= 0 => ~Derived

\* C8: the license cost is 0 for n <= 0 and n times the price of the tier of
\* n: tier 1 for 1, tier 2 for 2, tier 4 for 3..4, tier 8 from 5 on
C8_TierTimesCount ==
    (pc = "license_returned") =>
        LET n == num_gpus_exact
            t == license_tier_prices
        IN  /\ n <= 0 => license_cost = 0
            /\ (n = 1 /\ 1 \in DOMAIN t) => license_cost = n * t[1]
            /\ (n = 2 /\ 2 \in DOMAIN t) => license_cost = n * t[2]
            /\ (n \in 3..4 /\ 4 \in DOMAIN t) => license_cost = n * t[4]
            /\ n >= 5 => license_cost = n * t[8]
            /\ (t = LICENSE_PRICES_PER_GPU_TIERS /\ n = 4) => license_cost = 560000

C8_Witness ==
    /\ pc = "license_returned"
    /\ license_tier_prices = LICENSE_PRICES_PER_GPU_TIERS
    /\ num_gpus_exact = 4
    /\ license_cost = 4 * 140000

\* what the derivation does guarantee with positive throughput: the exact
\* ceiling or one more (rounding of the float quotients), the exact ceiling
\* for the configured throughputs, 0 without users, at least 1 with users
DerivedRequirementBounds ==
    (Derived /\ gpu_output_tps_per_gpu_single > 0) =>
        LET exact == ExactCeil(num_users * OUTPUT_TOKENS_PER_REQUEST,
                               MAX_LATENCY_S * gpu_output_tps_per_gpu_single)
        IN  /\ num_gpus_needed_exact \in {exact, exact + 1}
            /\ gpu_output_tps_per_gpu_single
                  \in {MODEL_PERFORMANCE[m] : m \in DOMAIN MODEL_PERFORMANCE}
               => num_gpus_needed_exact = exact
            /\ num_users = 0 => num_gpus_needed_exact = 0
            /\ num_users > 0 => num_gpus_needed_exact >= 1

====
